---- MODULE Spec2Model ----
(***************************************************************************)
(* Model of the proxy router of thedataproxy.com:                          *)
(*   backend/app/core/security.py      API-key issuance and verification   *)
(*   backend/app/api/routes/proxy.py   authorization gate, /status, /fetch *)
(*                                     and /generate-api-key               *)
(*                                                                         *)
(* Time is counted in ticks of 1/TicksPerSec second, so that the           *)
(* fractional timestamps the code writes into a key (datetime.timestamp()) *)
(* and the whole-second truncation the JWT library applies to them are     *)
(* both visible.                                                           *)
(***************************************************************************)
EXTENDS Integers, Sequences, FiniteSets, TLC

(***************************************************************************)
(* Bounds of the model.                                                    *)
(***************************************************************************)
TicksPerSec == 2
MaxTicks == 2
MaxEndpoints == 2
MaxKeys == 2
MaxTokenLen == 17    \* longest token string the preview is applied to

(***************************************************************************)
(* Program constants.                                                      *)
(***************************************************************************)
\* timedelta(days=365), in ticks
Days365 == 365 * 86400 * TicksPerSec

ALGORITHM == "HS256"

\* settings.SECRET_KEY, and a key the server does not hold
SECRET_KEY == "secret-key"
OtherKey == "other-key"

REGION_ENDPOINTS ==
       ("northamerica-northeast" :>
            << "https://northamerica-northeast1-proxy2-455013.cloudfunctions.net/main",
               "https://northamerica-northeast2-proxy2-455013.cloudfunctions.net/main" >>)
    @@ ("southamerica" :>
            << "https://southamerica-west1-proxy1-454912.cloudfunctions.net/main",
               "https://southamerica-east1-proxy3-455013.cloudfunctions.net/main",
               "https://southamerica-west1-proxy3-455013.cloudfunctions.net/main" >>)
    @@ ("us-central" :>
            << "https://us-central1-proxy1-454912.cloudfunctions.net/main",
               "https://us-central1-proxy2-455013.cloudfunctions.net/main",
               "https://us-south1-proxy3-455013.cloudfunctions.net/main" >>)
    @@ ("us-east" :>
            << "https://us-east1-proxy1-454912.cloudfunctions.net/main",
               "https://us-east4-proxy1-454912.cloudfunctions.net/main",
               "https://us-east5-proxy2-455013.cloudfunctions.net/main" >>)
    @@ ("asia" :>
            << "https://asia-east1-proxy6-455014.cloudfunctions.net/main",
               "https://asia-northeast2-proxy6-455014.cloudfunctions.net/main" >>)
    @@ ("us-west" :>
            << "https://us-west1-proxy1-454912.cloudfunctions.net/main",
               "https://us-west3-proxy1-454912.cloudfunctions.net/main",
               "https://us-west4-proxy1-454912.cloudfunctions.net/main",
               "https://us-west2-proxy2-455013.cloudfunctions.net/main" >>)
    @@ ("europe" :>
            << "https://europe-north1-proxy4-455014.cloudfunctions.net/main",
               "https://europe-southwest1-proxy4-455014.cloudfunctions.net/main",
               "https://europe-west1-proxy4-455014.cloudfunctions.net/main",
               "https://europe-west4-proxy4-455014.cloudfunctions.net/main",
               "https://europe-west6-proxy4-455014.cloudfunctions.net/main",
               "https://europe-west8-proxy4-455014.cloudfunctions.net/main",
               "https://europe-west12-proxy5-455014.cloudfunctions.net/main",
               "https://europe-west2-proxy5-455014.cloudfunctions.net/main",
               "https://europe-west3-proxy5-455014.cloudfunctions.net/main",
               "https://europe-west6-proxy5-455014.cloudfunctions.net/main",
               "https://europe-west9-proxy5-455014.cloudfunctions.net/main",
               "https://europe-west10-proxy6-455014.cloudfunctions.net/main" >>)
    @@ ("middle-east" :>
            << "https://me-central1-proxy6-455014.cloudfunctions.net/main" >>)
    @@ ("australia" :>
            << "https://australia-southeast1-proxy3-455013.cloudfunctions.net/main",
               "https://australia-southeast2-proxy3-455013.cloudfunctions.net/main" >>)

\* The region names a client sends: for every endpoint count up to
\* MaxEndpoints one registered region of that size, and one unregistered name.
UnknownRegion == "antarctica"
RegionOfSize(n) ==
    CHOOSE r \in DOMAIN REGION_ENDPOINTS : Len(REGION_ENDPOINTS[r]) = n
RequestRegions ==
    { RegionOfSize(n) : n \in 1..MaxEndpoints } \cup {UnknownRegion}

VARIABLES
    now,        \* the wall clock (datetime.now / datetime.utcnow), in ticks
    users,      \* the user table read through users.read_user_by_id
    apitokens,  \* the persisted APIToken rows
    req,        \* the protected requests in flight (GET /status, POST /fetch)
    gen,        \* the POST /generate-api-key request in flight
    vres,       \* the last direct call of verify_api_key and what it gave
    lst,        \* the last GET /api-keys request and its response
    returned,   \* the api keys POST /generate-api-key has returned, by user
    pv          \* a token string and the preview made of it

vars == << now, users, apitokens, req, gen, vres, lst, returned, pv >>


(***************************************************************************)
(* Users (external collaborator: app.models.User, users.read_user_by_id).  *)
(***************************************************************************)
UserIds == {"alice", "bob", "carol", "dave", "erin"}

\* One user of every kind the gate tells apart; "dave" has no row.
UserTable ==
       ("alice" :> [exists |-> TRUE,  is_active |-> TRUE,  has_subscription |-> TRUE])
    @@ ("bob"   :> [exists |-> TRUE,  is_active |-> TRUE,  has_subscription |-> FALSE])
    @@ ("carol" :> [exists |-> TRUE,  is_active |-> FALSE, has_subscription |-> TRUE])
    @@ ("dave"  :> [exists |-> FALSE, is_active |-> FALSE, has_subscription |-> FALSE])
    @@ ("erin"  :> [exists |-> TRUE,  is_active |-> FALSE, has_subscription |-> FALSE])

NoUser == "<none>"

\* users.read_user_by_id(session, user_id): the row, or None
read_user_by_id(user_id) ==
    IF user_id \in DOMAIN users /\ users[user_id].exists THEN user_id ELSE NoUser

(***************************************************************************)
(* Signed tokens (the jwt library, HS256).  A token string is modelled by  *)
(* its number of segments, the claims it carries and its signature; the    *)
(* signature is a keyed function of the claims.                            *)
(***************************************************************************)
NoPayload == [claims |-> {}, user_id |-> "", sub |-> "", iat |-> 0, exp |-> 0]

Mac(key, payload) == << ALGORITHM, key, payload >>

\* jwt.encode(payload, key, algorithm=ALGORITHM)
JwtEncode(payload, key) ==
    [isNone |-> FALSE, segs |-> 3, payload |-> payload, sig |-> Mac(key, payload)]

\* int(x) of a timestamp in seconds, as the library applies it to exp and iat
IntSeconds(t) == (t \div TicksPerSec) * TicksPerSec

Raise(exc) == [kind |-> "raise", exc |-> exc, payload |-> NoPayload]
Return(payload) == [kind |-> "payload", exc |-> "", payload |-> payload]
None == [kind |-> "None", exc |-> "", payload |-> NoPayload]

\* jwt.decode(token, key, algorithms=[ALGORITHM]) at time t
JwtDecode(token, key, t) ==
    IF token.segs # 3
    THEN Raise("jwt.DecodeError")
    ELSE IF token.sig # Mac(key, token.payload)
    THEN Raise("jwt.InvalidSignatureError")
    ELSE IF "iat" \in token.payload.claims /\ IntSeconds(token.payload.iat) > t
    THEN Raise("jwt.ImmatureSignatureError")
    ELSE IF "exp" \in token.payload.claims /\ IntSeconds(token.payload.exp) <= t
    THEN Raise("jwt.ExpiredSignatureError")
    ELSE Return(token.payload)

\* The exceptions `except JWTError` catches: jose.JWTError and its subclasses.
\* The decoder in use is the jwt package, whose exceptions are not among them.
JWTError == {"jose.JWTError", "jose.ExpiredSignatureError", "jose.JWTClaimsError"}

\* generate_api_key(user_id); t1 and t2 are its two reads of the clock
generate_api_key(user_id, t1, t2) ==
    JwtEncode([claims |-> {"user_id", "iat", "exp"}, user_id |-> user_id,
               sub |-> "", iat |-> t1, exp |-> t2 + Days365], SECRET_KEY)

\* create_access_token(subject, expires_delta) at time t
create_access_token(subject, expires_delta, t) ==
    JwtEncode([claims |-> {"exp", "sub"}, user_id |-> "", sub |-> subject,
               iat |-> 0, exp |-> IntSeconds(t + expires_delta)], SECRET_KEY)

\* verify_api_key decoding with options={"verify_exp": False}
verify_api_key_NoExpiry(api_key, t) ==
    LET r == JwtDecode(api_key, SECRET_KEY, t)
    IN  IF r.kind = "raise" /\ r.exc = "jwt.ExpiredSignatureError"
        THEN Return(api_key.payload)
        ELSE IF r.kind = "raise" /\ r.exc \in JWTError THEN None ELSE r

\* verify_api_key(api_key) at time t
verify_api_key(api_key, t) ==
    LET r == JwtDecode(api_key, SECRET_KEY, t)
    IN  IF r.kind = "raise" /\ r.exc \in JWTError THEN None ELSE r


(***************************************************************************)
(* What a client can put in the X-API-Key header.                          *)
(***************************************************************************)
\* the header is absent: x_api_key = None
NoHeader == [isNone |-> TRUE, segs |-> 0, payload |-> NoPayload,
             sig |-> Mac(OtherKey, NoPayload)]
\* the header is the empty string
EmptyKey == [NoHeader EXCEPT !.isNone = FALSE]
\* a string that is no three-segment token
Malformed == [EmptyKey EXCEPT !.segs = 1]

\* The protected requests start one tick before the first second of the
\* year that follows time 0.
StartTime == Days365 - 1

\* The keys handed out a year before: one for every user id, issued at tick 1.
IssueTimes == {1}
CirculatingKeys ==
    { generate_api_key(u, t, t) : u \in UserIds, t \in IssueTimes }

\* a key for alice signed with a key the server does not hold
ForgedKey == JwtEncode(generate_api_key("alice", 1, 1).payload, OtherKey)
\* a session token of the server: signed with SECRET_KEY, no user_id claim
SessionToken == create_access_token("alice", Days365, 1)

Headers ==
    {NoHeader, EmptyKey, Malformed, ForgedKey, SessionToken} \cup CirculatingKeys

(***************************************************************************)
(* The authorization gate: verify_api_token.                               *)
(***************************************************************************)
HTTPException(status_code, detail) ==
    [status |-> status_code, detail |-> detail, user |-> NoUser]
\* an exception that is no HTTPException leaves the application as a 500
Unhandled(exc) == [status |-> 500, detail |-> exc, user |-> NoUser]
Allowed(user) == [status |-> 200, detail |-> "", user |-> user]

\* `not x_api_key`
Falsy(x_api_key) == x_api_key.isNone \/ x_api_key.segs = 0

\* verify_api_token without the test of user.is_active
verify_api_token_NoActiveCheck(x_api_key, t) ==
    IF Falsy(x_api_key)
    THEN HTTPException(401, "API key required")
    ELSE LET token_data == verify_api_key(x_api_key, t)
         IN  IF token_data.kind = "raise"
             THEN Unhandled(token_data.exc)
             ELSE IF \/ token_data.kind = "None"
                     \/ token_data.payload.claims = {}
                     \/ "user_id" \notin token_data.payload.claims
             THEN HTTPException(401, "Invalid API key")
             ELSE LET user == read_user_by_id(token_data.payload.user_id)
                  IN  IF user = NoUser
                      THEN HTTPException(401, "Invalid or inactive user")
                      ELSE IF ~users[user].has_subscription
                      THEN HTTPException(403, "Active subscription required")
                      ELSE Allowed(user)

\* the gate with a lookup of the token's record, refusing a token that has
\* no record or whose record is not active
verify_api_token_ChecksRecord(x_api_key, t) ==
    IF Falsy(x_api_key)
    THEN HTTPException(401, "API key required")
    ELSE LET token_data == verify_api_key(x_api_key, t)
         IN  IF token_data.kind = "raise"
             THEN Unhandled(token_data.exc)
             ELSE IF \/ token_data.kind = "None"
                     \/ token_data.payload.claims = {}
                     \/ "user_id" \notin token_data.payload.claims
                     \/ ~\E i \in 1..Len(apitokens) :
                            apitokens[i].token = x_api_key /\ apitokens[i].is_active
             THEN HTTPException(401, "Invalid API key")
             ELSE LET user == read_user_by_id(token_data.payload.user_id)
                  IN  IF user = NoUser \/ ~users[user].is_active
                      THEN HTTPException(401, "Invalid or inactive user")
                      ELSE IF ~users[user].has_subscription
                      THEN HTTPException(403, "Active subscription required")
                      ELSE Allowed(user)

\* verify_api_token(session, x_api_key) at time t: the user it returns, or
\* the error it raises
verify_api_token(x_api_key, t) ==
    IF Falsy(x_api_key)
    THEN HTTPException(401, "API key required")
    ELSE LET token_data == verify_api_key(x_api_key, t)
         IN  IF token_data.kind = "raise"
             THEN Unhandled(token_data.exc)
             ELSE IF \/ token_data.kind = "None"
                     \/ token_data.payload.claims = {}
                     \/ "user_id" \notin token_data.payload.claims
             THEN HTTPException(401, "Invalid API key")
             ELSE LET user == read_user_by_id(token_data.payload.user_id)
                  IN  IF user = NoUser \/ ~users[user].is_active
                      THEN HTTPException(401, "Invalid or inactive user")
                      ELSE IF ~users[user].has_subscription
                      THEN HTTPException(403, "Active subscription required")
                      ELSE Allowed(user)

\* the state the gate ends in: Authorized when it returned a user
GateState(outcome) == IF outcome.status = 200 THEN "Authorized" ELSE "rejected"

\* the handler body run whatever the dependency raised
Depends_Ignored(outcome) == TRUE

\* Depends(verify_api_token): the handler body runs only with the user the
\* dependency returned
Depends(outcome) == outcome.status = 200

(***************************************************************************)
(* The health prober: check_proxy_health.                                  *)
(***************************************************************************)
NetOutcomes == {"success", "timeout", "connect_error", "http_error"}

\* what client.get and response.raise_for_status raise on a network outcome
HealthCallRaises(net) ==
    CASE net = "timeout"       -> "httpx.TimeoutException"
      [] net = "connect_error" -> "httpx.ConnectError"
      [] net = "http_error"    -> "httpx.HTTPStatusError"
      [] OTHER                 -> ""

\* the exceptions `except Exception` catches
Exception == {"httpx.TimeoutException", "httpx.ConnectError",
              "httpx.HTTPStatusError", "IndexError", "KeyError",
              "json.JSONDecodeError"}

Pending == [kind |-> "pending", region |-> "", is_healthy |-> FALSE, net |-> ""]

\* check_proxy_health with `except httpx.TimeoutException` in place of
\* `except Exception`
check_proxy_health_TimeoutOnly(endpoint, region, net) ==
    LET exc == HealthCallRaises(net)
    IN  IF exc = ""
        THEN [kind |-> "return", region |-> region, is_healthy |-> TRUE, net |-> net]
        ELSE IF exc = "httpx.TimeoutException"
        THEN [kind |-> "return", region |-> region, is_healthy |-> FALSE, net |-> net]
        ELSE [kind |-> "raise", region |-> region, is_healthy |-> FALSE, net |-> net]

\* check_proxy_health(endpoint, region) when the liveness call ends as net
check_proxy_health(endpoint, region, net) ==
    LET exc == HealthCallRaises(net)
    IN  IF exc = ""
        THEN [kind |-> "return", region |-> region, is_healthy |-> TRUE, net |-> net]
        ELSE IF exc \in Exception
        THEN [kind |-> "return", region |-> region, is_healthy |-> FALSE, net |-> net]
        ELSE [kind |-> "raise", region |-> region, is_healthy |-> FALSE, net |-> net]


(***************************************************************************)
(* The protected requests: GET /status (get_proxy_status) and POST /fetch  *)
(* (proxy_fetch).  Two are in flight at a time.                            *)
(***************************************************************************)
Reqs == {"r1", "r2"}
Kinds == {"status", "fetch"}

NoResponse == [status |-> 0, detail |-> "", statuses |-> << >>,
               fields |-> {}, region_used |-> ""]
ErrorResponse(status_code, detail) ==
    [NoResponse EXCEPT !.status = status_code, !.detail = detail]

\* how the forward call ended and whether its body lacked one of the three
\* fields; no forward call has ended yet
NoUpstream == [net |-> "", lacking |-> FALSE]

IdleReq ==
    [pc |-> "idle", kind |-> "status", x_api_key |-> NoHeader, region |-> "",
     gate |-> "pending", user |-> NoUser, tasks |-> << >>, results |-> << >>,
     probes |-> 0, selected |-> "", forwards |-> 0, upstream |-> NoUpstream,
     resp |-> NoResponse]

\* a request arrives with its header, its region parameter and its kind
Arrive(r) ==
    /\ req[r].pc = "idle"
    /\ \E k \in Kinds, h \in Headers, g \in RequestRegions :
          req' = [req EXCEPT ![r] =
                     [IdleReq EXCEPT !.pc = "gate", !.kind = k,
                                     !.x_api_key = h, !.region = g]]
    /\ UNCHANGED << now, users, apitokens, gen, vres, lst, returned, pv >>

\* the dependency verify_api_token runs before the handler body
Gate(r) ==
    /\ req[r].pc = "gate"
    /\ LET outcome == verify_api_token(req[r].x_api_key, now)
       IN  req' = [req EXCEPT ![r] =
               IF Depends(outcome)
               THEN [@ EXCEPT !.pc = "handler", !.gate = GateState(outcome),
                              !.user = outcome.user]
               ELSE [@ EXCEPT !.pc = "done", !.gate = GateState(outcome),
                              !.resp = ErrorResponse(outcome.status, outcome.detail)]]
    /\ UNCHANGED << now, users, apitokens, gen, vres, lst, returned, pv >>

\* status_tasks = [check_proxy_health(endpoint, region) for endpoint in endpoints]
StatusTasks(endpoints) == endpoints

\* every region name taken for a registered one
InvalidRegion_Unchecked(region) == FALSE

\* if region not in REGION_ENDPOINTS: raise HTTPException(status_code=400, ...)
InvalidRegion(region) == region \notin DOMAIN REGION_ENDPOINTS

\* the first lines of both handler bodies: the region check, then the
\* lookup REGION_ENDPOINTS[region], which raises KeyError on a name that is
\* not registered, then one probe per endpoint handed to asyncio.gather
Handler(r) ==
    /\ req[r].pc = "handler"
    /\ req' = [req EXCEPT ![r] =
          IF InvalidRegion(req[r].region)
          THEN [@ EXCEPT !.pc = "done",
                         !.resp = ErrorResponse(400, "Invalid region")]
          ELSE IF req[r].region \notin DOMAIN REGION_ENDPOINTS
          THEN [@ EXCEPT !.pc = "done", !.resp = ErrorResponse(500, "KeyError")]
          ELSE LET tasks == StatusTasks(REGION_ENDPOINTS[req[r].region])
               IN  [@ EXCEPT !.pc = "join", !.tasks = tasks,
                             !.results = [i \in 1..Len(tasks) |-> Pending],
                             !.probes = @ + Len(tasks)]]
    /\ UNCHANGED << now, users, apitokens, gen, vres, lst, returned, pv >>

\* one probe ends; an exception leaving a probe would end the gather at once
ProbeReturn(r) ==
    /\ req[r].pc = "join"
    /\ \E i \in 1..Len(req[r].tasks), net \in NetOutcomes :
          /\ req[r].results[i].kind = "pending"
          /\ LET verdict == check_proxy_health(req[r].tasks[i], req[r].region, net)
             IN  req' = [req EXCEPT ![r] =
                     IF verdict.kind = "raise"
                     THEN [@ EXCEPT !.pc = "done", !.results[i] = verdict,
                                    !.resp = ErrorResponse(500, HealthCallRaises(net))]
                     ELSE [@ EXCEPT !.results[i] = verdict]]
    /\ UNCHANGED << now, users, apitokens, gen, vres, lst, returned, pv >>

\* a wait that returns with the first probe that completes
GatherDone_FirstCompleted(results) ==
    \E i \in 1..Len(results) : results[i].kind # "pending"

\* a join that waits until every probe has reported healthy
GatherDone_AllHealthy(results) ==
    \A i \in 1..Len(results) : results[i].kind # "pending" /\ results[i].is_healthy

\* results = await asyncio.gather(*status_tasks) returns
GatherDone(results) == \A i \in 1..Len(results) : results[i].kind # "pending"

\* sum(1 for r in results), the filter forgotten
HealthyCount_CountsAll(results) == Len(results)

\* sum(1 for r in results if r["is_healthy"])
HealthyCount(results) ==
    Cardinality({ i \in 1..Len(results) : results[i].is_healthy })

\* the ProxyStatus built by get_proxy_status
ProxyStatus(region, endpoints, results) ==
    LET healthy_count == HealthyCount(results)
        total_count == Len(endpoints)
    IN  [region |-> region,
         is_healthy |-> healthy_count > 0,
         healthy_endpoints |-> healthy_count,
         total_endpoints |-> total_count]

\* the rest of get_proxy_status
StatusJoin(r) ==
    /\ req[r].pc = "join"
    /\ req[r].kind = "status"
    /\ GatherDone(req[r].results)
    /\ req' = [req EXCEPT ![r] =
          [@ EXCEPT !.pc = "done",
                    !.resp = [NoResponse EXCEPT !.status = 200,
                                 !.statuses = << ProxyStatus(req[r].region,
                                                   REGION_ENDPOINTS[req[r].region],
                                                   req[r].results) >>]]]
    /\ UNCHANGED << now, users, apitokens, gen, vres, lst, returned, pv >>

\* the filter applied before enumerate, so that i counts the healthy
\* results and not the endpoints
HealthyEndpoints_IndexAfterFilter(endpoints, results) ==
    SubSeq(endpoints, 1,
           Cardinality({ i \in 1..Len(results) : results[i].is_healthy }))

\* [endpoints[i] for i, result in enumerate(results) if result["is_healthy"]]
HealthyEndpoints(endpoints, results) ==
    LET F[i \in 0..Len(results)] ==
            IF i = 0 THEN << >>
            ELSE IF results[i].is_healthy
                 THEN Append(F[i-1], endpoints[i])
                 ELSE F[i-1]
    IN  F[Len(results)]

\* the check for an empty list left out
NoneHealthy_Unchecked(healthy_endpoints) == FALSE

\* `if not healthy_endpoints`
NoneHealthy(healthy_endpoints) == healthy_endpoints = << >>

\* proxy_fetch after the gather: filter, the 503 check, random.choice and the
\* dispatch of the one forward call
FetchJoin(r) ==
    /\ req[r].pc = "join"
    /\ req[r].kind = "fetch"
    /\ GatherDone(req[r].results)
    /\ LET healthy_endpoints ==
               HealthyEndpoints(REGION_ENDPOINTS[req[r].region], req[r].results)
       IN  IF NoneHealthy(healthy_endpoints)
           THEN req' = [req EXCEPT ![r] =
                    [@ EXCEPT !.pc = "done",
                              !.resp = ErrorResponse(503, "No healthy proxy endpoints")]]
           ELSE IF healthy_endpoints = << >>
           THEN \* random.choice of an empty list raises IndexError
                req' = [req EXCEPT ![r] =
                    [@ EXCEPT !.pc = "done",
                              !.resp = ErrorResponse(500, "IndexError")]]
           ELSE \E n \in 1..Len(healthy_endpoints) :
                req' = [req EXCEPT ![r] =
                    [@ EXCEPT !.pc = "forward",
                              !.selected = healthy_endpoints[n],
                              !.forwards = @ + 1]]
    /\ UNCHANGED << now, users, apitokens, gen, vres, lst, returned, pv >>

\* how the forward call can end: no answer in time, a non-success status, a
\* body that is no JSON, or a JSON body with some of the three fields
ProxyFields == {"result", "public_ip", "device_id"}
ForwardOutcomes ==
    [net : {"timeout", "http_error", "bad_json"}, fields : {{}}]
    \cup [net : {"success"}, fields : SUBSET ProxyFields]

\* the three fields read with data.get(...), so that a missing one passes
ForwardRaises_MissingTolerated(out) ==
    CASE out.net = "timeout"    -> "httpx.TimeoutException"
      [] out.net = "http_error" -> "httpx.HTTPStatusError"
      [] out.net = "bad_json"   -> "json.JSONDecodeError"
      [] OTHER -> ""

\* what the try block of proxy_fetch raises on a forward outcome
ForwardRaises(out) ==
    CASE out.net = "timeout"    -> "httpx.TimeoutException"
      [] out.net = "http_error" -> "httpx.HTTPStatusError"
      [] out.net = "bad_json"   -> "json.JSONDecodeError"
      [] OTHER -> IF ProxyFields \subseteq out.fields THEN "" ELSE "KeyError"

\* the except branch of proxy_fetch retried once on another forward call
ForwardFailed_Retry(rq, exc) ==
    IF rq.forwards < 2
    THEN [rq EXCEPT !.forwards = @ + 1]
    ELSE [rq EXCEPT !.pc = "done", !.resp = ErrorResponse(500, exc)]

\* the except branch of proxy_fetch: the error is logged and raised as a 500
\* whose detail carries str(e)
ForwardFailed(rq, exc) ==
    [rq EXCEPT !.pc = "done", !.resp = ErrorResponse(500, exc)]

\* the forward call ends: the try / except of proxy_fetch
ForwardReturn(r) ==
    /\ req[r].pc = "forward"
    /\ \E out \in ForwardOutcomes :
          LET exc == ForwardRaises(out)
              rq == [req[r] EXCEPT !.upstream =
                        [net |-> out.net,
                         lacking |-> out.net = "success"
                                     /\ ProxyFields \ out.fields # {}]]
          IN  req' = [req EXCEPT ![r] =
                  IF exc = ""
                  THEN [rq EXCEPT !.pc = "done",
                                  !.resp = [NoResponse EXCEPT !.status = 200,
                                               !.fields = out.fields,
                                               !.region_used = req[r].region]]
                  ELSE ForwardFailed(rq, exc)]
    /\ UNCHANGED << now, users, apitokens, gen, vres, lst, returned, pv >>

\* the response is sent; nothing of the request is kept
Respond(r) ==
    /\ req[r].pc = "done"
    /\ req' = [req EXCEPT ![r] = IdleReq]
    /\ UNCHANGED << now, users, apitokens, gen, vres, lst, returned, pv >>

\* the wall clock advances by one tick, at most MaxTicks times in a row
Tick ==
    /\ \/ now < MaxTicks
       \/ StartTime <= now /\ now < StartTime + MaxTicks
    /\ now' = now + 1
    /\ UNCHANGED << users, apitokens, req, gen, vres, lst, returned, pv >>


(***************************************************************************)
(* Token strings and their preview.  The string of a token is its header   *)
(* segment, which is the same for every HS256 token, a dot, its payload    *)
(* segment, a dot and its signature segment; a character of the payload    *)
(* and of the signature segment is known by its position and by what it    *)
(* encodes.                                                                *)
(***************************************************************************)
Lit(ch) == [part |-> "lit", pos |-> 0, ch |-> ch, payload |-> NoPayload, key |-> ""]

\* base64url of {"alg":"HS256","typ":"JWT"}
HeaderSegment ==
    << Lit("e"), Lit("y"), Lit("J"), Lit("h"), Lit("b"), Lit("G"), Lit("c"),
       Lit("i"), Lit("O"), Lit("i"), Lit("J"), Lit("I"), Lit("U"), Lit("z"),
       Lit("I"), Lit("1"), Lit("N"), Lit("i"), Lit("I"), Lit("s"), Lit("I"),
       Lit("n"), Lit("R"), Lit("5"), Lit("c"), Lit("C"), Lit("I"), Lit("6"),
       Lit("I"), Lit("k"), Lit("p"), Lit("X"), Lit("V"), Lit("C"), Lit("J"),
       Lit("9") >>

\* the base64url length of an HS256 signature (32 bytes)
SigLen == 43

\* one character per claim of the payload
PayloadSegment(payload) ==
    [i \in 1..Cardinality(payload.claims) |->
        [part |-> "payload", pos |-> i, ch |-> "", payload |-> payload, key |-> ""]]

SignatureSegment(sig) ==
    [i \in 1..SigLen |->
        [part |-> "sig", pos |-> i, ch |-> "", payload |-> sig[3], key |-> sig[2]]]

\* the string jwt.encode returns for a token
TokenString(token) ==
    HeaderSegment \o << Lit(".") >> \o PayloadSegment(token.payload)
        \o << Lit(".") >> \o SignatureSegment(token.sig)

FRONT_PREVIEW_LENGTH == 8
END_PREVIEW_LENGTH == 8

Min(a, b) == IF a < b THEN a ELSE b
Max(a, b) == IF a > b THEN a ELSE b

\* s[:n] and s[-n:] of Python, for n > 0
SliceFront(s, n) == SubSeq(s, 1, Min(n, Len(s)))
SliceBack(s, n) == SubSeq(s, Max(1, Len(s) - n + 1), Len(s))

\* the preview with token[END_PREVIEW_LENGTH:] for the tail
KeyPreview_TailFromEighth(token_string) ==
    [kind |-> "return",
     text |-> SliceFront(token_string, FRONT_PREVIEW_LENGTH)
              \o << Lit("."), Lit("."), Lit(".") >>
              \o SubSeq(token_string, END_PREVIEW_LENGTH + 1, Len(token_string))]

\* f"{token.token[:FRONT_PREVIEW_LENGTH]}...{token.token[-END_PREVIEW_LENGTH:]}"
KeyPreview(token_string) ==
    [kind |-> "return",
     text |-> SliceFront(token_string, FRONT_PREVIEW_LENGTH)
              \o << Lit("."), Lit("."), Lit(".") >>
              \o SliceBack(token_string, END_PREVIEW_LENGTH)]

\* no /generate-api-key request in flight, no direct verification, no
\* listing and no preview yet
NoList == [called |-> FALSE, user |-> NoUser, status |-> 0, keys |-> << >>]
NoPreview == [token |-> << >>, applied |-> FALSE,
              out |-> [kind |-> "", text |-> << >>]]
IdleGen == [pc |-> "idle", user |-> NoUser, iat |-> 0, created_at |-> 0,
            api_key |-> NoHeader, status |-> 0]
NoVerify == [api_key |-> NoHeader, at |-> 0, out |-> None, called |-> FALSE]

Init ==
    /\ now = StartTime
    /\ users = UserTable
    /\ apitokens = << >>
    /\ req = [r \in Reqs |-> IdleReq]
    /\ gen = IdleGen
    /\ vres = NoVerify
    /\ lst = NoList
    /\ returned = {}
    /\ pv = NoPreview

Next ==
    \/ \E r \in Reqs : Arrive(r)
    \/ \E r \in Reqs : Gate(r)
    \/ \E r \in Reqs : Handler(r)
    \/ \E r \in Reqs : ProbeReturn(r)
    \/ \E r \in Reqs : StatusJoin(r)
    \/ \E r \in Reqs : FetchJoin(r)
    \/ \E r \in Reqs : ForwardReturn(r)
    \/ \E r \in Reqs : Respond(r)
    \/ Tick

Spec == Init /\ [][Next]_vars

\* Spec with the progress the event loop and the timeouts give: a coroutine
\* that can run is run (the gate, the handler, the joins), and every probe
\* and every forward call returns, with a response or with an exception,
\* its httpx timeout among them (timeout=5.0 and timeout=10.0)
Progress(r) ==
    /\ WF_vars(Gate(r))
    /\ WF_vars(Handler(r))
    /\ WF_vars(ProbeReturn(r))
    /\ WF_vars(StatusJoin(r))
    /\ WF_vars(FetchJoin(r))
    /\ WF_vars(ForwardReturn(r))

SpecLive == Init /\ [][Next]_vars /\ \A r \in Reqs : Progress(r)

(***************************************************************************)
(* POST /generate-api-key (generate_user_api_key).  The handler reads the  *)
(* clock four times: twice in generate_api_key, for iat and for exp, and   *)
(* twice for the row, for created_at and for expires_at.                   *)
(***************************************************************************)
\* CurrentUser (app.api.deps): the session's user, who exists and is active
CurrentUsers == { u \in DOMAIN users : users[u].exists /\ users[u].is_active }

\* no subscription is asked for
SubscriptionMissing_Unchecked(current_user) == FALSE

\* if not current_user.has_subscription: raise HTTPException(status_code=403, ...)
SubscriptionMissing(current_user) == ~users[current_user].has_subscription

\* the subscription check, then the first clock read of generate_api_key
GenBegin ==
    /\ gen.pc = "idle"
    /\ Len(apitokens) < MaxKeys
    /\ \E current_user \in CurrentUsers :
          gen' = IF SubscriptionMissing(current_user)
                 THEN [IdleGen EXCEPT !.pc = "done", !.user = current_user,
                                      !.status = 403]
                 ELSE [IdleGen EXCEPT !.pc = "exp", !.user = current_user,
                                      !.iat = now]
    /\ UNCHANGED << now, users, apitokens, req, vres, lst, returned, pv >>

\* the second clock read of generate_api_key, and jwt.encode
GenEncode ==
    /\ gen.pc = "exp"
    /\ gen' = [gen EXCEPT !.pc = "created_at",
                          !.api_key = generate_api_key(gen.user, gen.iat, now)]
    /\ UNCHANGED << now, users, apitokens, req, vres, lst, returned, pv >>

\* created_at=datetime.utcnow()
GenCreatedAt ==
    /\ gen.pc = "created_at"
    /\ gen' = [gen EXCEPT !.pc = "expires_at", !.created_at = now]
    /\ UNCHANGED << now, users, apitokens, req, vres, lst, returned, pv >>

\* the row stored with is_active false
APIToken_Inactive(user_id, token, created_at, expires_at) ==
    [user_id |-> user_id, token |-> token, created_at |-> created_at,
     expires_at |-> expires_at, is_active |-> FALSE]

\* the APIToken row of generate_user_api_key
APIToken(user_id, token, created_at, expires_at) ==
    [user_id |-> user_id, token |-> token, created_at |-> created_at,
     expires_at |-> expires_at, is_active |-> TRUE]

\* expires_at=datetime.utcnow() + timedelta(days=365), session.add, commit
GenCommit ==
    /\ gen.pc = "expires_at"
    /\ apitokens' = Append(apitokens,
                       APIToken(gen.user, gen.api_key, gen.created_at, now + Days365))
    /\ gen' = [gen EXCEPT !.pc = "done", !.status = 200]
    /\ UNCHANGED << now, users, req, vres, lst, returned, pv >>

\* the response is sent: {"api_key": api_key}, or the 403
GenRespond ==
    /\ gen.pc = "done"
    /\ gen' = IdleGen
    /\ returned' = IF gen.status = 200
                   THEN returned \cup {[user |-> gen.user, api_key |-> gen.api_key]}
                   ELSE returned
    /\ UNCHANGED << now, users, apitokens, req, vres, lst, pv >>

\* the rows of the user that are active, in table order
ActiveRowsOf(user_id) ==
    SelectSeq(apitokens, LAMBDA row : row.user_id = user_id /\ row.is_active)

\* one entry of the list (isoformat() of the two timestamps is left out)
APIKeyResponse(row) ==
    [key_preview |-> KeyPreview(TokenString(row.token)).text,
     created_at |-> row.created_at,
     expires_at |-> row.expires_at,
     is_active |-> row.is_active]

\* GET /api-keys (list_user_api_keys)
ListUserApiKeys ==
    /\ \E current_user \in CurrentUsers :
          lst' = IF ~users[current_user].has_subscription
                 THEN [called |-> TRUE, user |-> current_user, status |-> 403,
                       keys |-> << >>]
                 ELSE LET api_tokens == ActiveRowsOf(current_user)
                      IN  [called |-> TRUE, user |-> current_user, status |-> 200,
                           keys |-> [i \in 1..Len(api_tokens) |->
                                        APIKeyResponse(api_tokens[i])]]
    /\ UNCHANGED << now, users, apitokens, req, gen, vres, returned, pv >>

\* the characters token strings are drawn from
Alphabet == { Lit("a"), Lit("b") }
TokenStrings == UNION { [1..n -> Alphabet] : n \in 0..MaxTokenLen }

\* the preview expression of list_user_api_keys applied to a token string
ApplyPreview ==
    /\ ~pv.applied
    /\ pv' = [pv EXCEPT !.applied = TRUE, !.out = KeyPreview(pv.token)]
    /\ UNCHANGED << now, users, apitokens, req, gen, vres, lst, returned >>

\* verify_api_key is called on a key this server issued
Verify ==
    /\ \E n \in 1..Len(apitokens) :
          vres' = [api_key |-> apitokens[n].token, at |-> now,
                   out |-> verify_api_key(apitokens[n].token, now),
                   called |-> TRUE]
    /\ UNCHANGED << now, users, apitokens, req, gen, lst, returned, pv >>

\* a year less one tick passes
YearPasses ==
    /\ now < StartTime
    /\ now' = now + StartTime
    /\ UNCHANGED << users, apitokens, req, gen, vres, lst, returned, pv >>

InitKey ==
    /\ now = 0
    /\ users = UserTable
    /\ apitokens = << >>
    /\ req = [r \in Reqs |-> IdleReq]
    /\ gen = IdleGen
    /\ vres = NoVerify
    /\ lst = NoList
    /\ returned = {}
    /\ pv = NoPreview

NextKey ==
    \/ GenBegin
    \/ GenEncode
    \/ GenCreatedAt
    \/ GenCommit
    \/ GenRespond
    \/ ListUserApiKeys
    \/ Verify
    \/ Tick
    \/ YearPasses

\* issuing and verifying keys over a year
SpecKey == InitKey /\ [][NextKey]_vars

\* the preview alone, on every token string up to MaxTokenLen characters
InitPreview ==
    /\ now = 0
    /\ users = UserTable
    /\ apitokens = << >>
    /\ req = [r \in Reqs |-> IdleReq]
    /\ gen = IdleGen
    /\ vres = NoVerify
    /\ lst = NoList
    /\ returned = {}
    /\ pv \in { [NoPreview EXCEPT !.token = str] : str \in TokenStrings }

NextPreview == ApplyPreview

SpecPreview == InitPreview /\ [][NextPreview]_vars

\* the gate alone, over every state of the record of a presented key: no
\* record, a record with is_active true, a record with is_active false
StoredRecords ==
    { [APIToken(k.payload.user_id, k, k.payload.iat, k.payload.exp)
          EXCEPT !.is_active = a] : k \in CirculatingKeys, a \in BOOLEAN }
TokenTables == { << >> } \cup { << row >> : row \in StoredRecords }

InitGate ==
    /\ now = StartTime
    /\ users = UserTable
    /\ apitokens \in TokenTables
    /\ req = [r \in Reqs |-> IdleReq]
    /\ gen = IdleGen
    /\ vres = NoVerify
    /\ lst = NoList
    /\ returned = {}
    /\ pv = NoPreview

NextGate ==
    \/ \E r \in Reqs : Arrive(r)
    \/ \E r \in Reqs : Gate(r)
    \/ \E r \in Reqs : Respond(r)
    \/ Tick

SpecGate == InitGate /\ [][NextGate]_vars

\* all five kinds of request interleaved: one /status or /fetch request at
\* a time beside the /generate-api-key and /api-keys requests, while the
\* clock stands still
OneReq == { "r1" }

NextAll ==
    \/ \E r \in OneReq : Arrive(r)
    \/ \E r \in OneReq : Gate(r)
    \/ \E r \in OneReq : Handler(r)
    \/ \E r \in OneReq : ProbeReturn(r)
    \/ \E r \in OneReq : StatusJoin(r)
    \/ \E r \in OneReq : FetchJoin(r)
    \/ \E r \in OneReq : ForwardReturn(r)
    \/ \E r \in OneReq : Respond(r)
    \/ GenBegin
    \/ GenEncode
    \/ GenCreatedAt
    \/ GenCommit
    \/ GenRespond
    \/ ListUserApiKeys

SpecAll == Init /\ [][NextAll]_vars


(***************************************************************************)
(* Properties.                                                             *)
(***************************************************************************)
Range(f) == { f[i] : i \in DOMAIN f }

\* the conditions of the gate as the specification words them
WellFormed(k) == ~k.isNone /\ k.segs = 3
SignatureValid(k) == k.sig = Mac(SECRET_KEY, k.payload)
Unexpired(k, t) == "exp" \in k.payload.claims => t < k.payload.exp
TokenVerifies(k, t) == WellFormed(k) /\ SignatureValid(k) /\ Unexpired(k, t)
UserResolves(k) ==
    /\ "user_id" \in k.payload.claims
    /\ k.payload.user_id \in DOMAIN users
    /\ users[k.payload.user_id].exists
UserActive(k) == UserResolves(k) /\ users[k.payload.user_id].is_active
Subscribed(k) == UserResolves(k) /\ users[k.payload.user_id].has_subscription
Entitled(k, t) == TokenVerifies(k, t) /\ UserActive(k) /\ Subscribed(k)

\* the states of a request in which its handler body is running
Body == {"handler", "join", "forward"}
\* the step in which the gate of request r decides
GateStep(r) == req[r].pc = "gate" /\ req'[r].pc # "gate"
EntersBody(r) == req[r].pc \notin Body /\ req'[r].pc \in Body

\* C1: a protected request reaches its handler body only through the gate and
\* only when its token verifies (valid signature, well-formed, unexpired) and
\* names an existing, active, subscribed user; when any of these fails the
\* gate leaves the request rejected, never Authorized.
C1_GateAdmitsOnlyEntitled ==
    [][\A r \in Reqs :
          /\ EntersBody(r) =>
                 /\ req[r].pc = "gate"
                 /\ Entitled(req[r].x_api_key, now)
                 /\ req'[r].gate = "Authorized"
          /\ (GateStep(r) /\ ~Entitled(req[r].x_api_key, now)) =>
                 /\ req'[r].pc = "done"
                 /\ req'[r].gate = "rejected"
                 /\ req'[r].resp.status \in {401, 403, 500}]_vars

\* a request of bob, who has no subscription, was rejected while a request
\* of alice runs its handler body
C1_Witness ==
    \E r1, r2 \in Reqs :
        /\ req[r1].pc = "join" /\ req[r1].gate = "Authorized"
        /\ req[r1].user = "alice"
        /\ req[r2].pc = "done" /\ req[r2].gate = "rejected"
        /\ req[r2].x_api_key.payload.user_id = "bob"

\* C2: no probe and no forward call is dispatched before the gate of the
\* request has reached Authorized; a rejected request performs none.
C2_NoNetworkBeforeAuthorized ==
    \A r \in Reqs :
        req[r].gate # "Authorized" =>
            /\ req[r].probes = 0
            /\ req[r].forwards = 0
            /\ req[r].tasks = << >>
            /\ req[r].pc \notin Body

\* one request was rejected with nothing dispatched while the other, past
\* its gate, has dispatched its probes
C2_Witness ==
    \E r1, r2 \in Reqs :
        /\ req[r1].gate = "rejected" /\ req[r1].pc = "done"
        /\ req[r1].region \in DOMAIN REGION_ENDPOINTS
        /\ req[r2].gate = "Authorized" /\ req[r2].probes > 0

\* verification at the granularity of the decoder, which compares whole
\* seconds: the token is refused from the second of its expiry on
VerifiesToTheSecond(k, t) ==
    /\ WellFormed(k) /\ SignatureValid(k)
    /\ "exp" \in k.payload.claims => t < IntSeconds(k.payload.exp)

\* the response the gate owes a request by the order of its checks
GateStatusByOrder(k, t) ==
    IF k.isNone \/ k.segs = 0 THEN 401
    ELSE IF ~VerifiesToTheSecond(k, t) THEN 401
    ELSE IF ~UserActive(k) THEN 401
    ELSE IF ~Subscribed(k) THEN 403
    ELSE 200

\* C3: the gate checks token-present, token-verifies, user-exists-and-active,
\* has-subscription in this order and the first failing check alone fixes the
\* response: 401, 401, 401 and 403.
C3_FirstFailingCheckDecides ==
    [][\A r \in Reqs :
          (GateStep(r) /\ GateStatusByOrder(req[r].x_api_key, now) # 200) =>
              /\ req'[r].pc = "done"
              /\ req'[r].resp.status = GateStatusByOrder(req[r].x_api_key, now)]_vars

\* the token strings verification must refuse at time t
BadToken(k, t) ==
    /\ ~k.isNone /\ k.segs # 0
    /\ \/ k.segs # 3
       \/ ~SignatureValid(k)
       \/ ~Unexpired(k, t)

\* C4: for a token with a mismatched signature, a malformed or an expired one
\* verify_api_key returns None and does not raise, and the gate answers 401.
C4_BadTokenGivesNoneAnd401 ==
    [][\A r \in Reqs :
          (GateStep(r) /\ BadToken(req[r].x_api_key, now)) =>
              /\ verify_api_key(req[r].x_api_key, now) = None
              /\ req'[r].resp.status = 401]_vars


\* the row that records key k, and so the user it was issued to
IssuedTo(k) ==
    LET n == CHOOSE n \in 1..Len(apitokens) : apitokens[n].token = k
    IN  apitokens[n].user_id

Probing(r) == req[r].pc \in {"join", "forward"} \/ req[r].probes > 0
\* the requests that have gone past the join of their probes
Joined(r) ==
    \/ req[r].pc = "forward"
    \/ req[r].selected # ""
    \/ req[r].forwards > 0
    \/ req[r].resp.statuses # << >>
    \/ req[r].resp.status \in {200, 503}

\* C6: an authorized request to a known region with endpoints E starts
\* exactly |E| probes, one per endpoint and none twice, and computes no
\* summary, selects no endpoint and forwards nothing before every one of
\* them has returned its verdict.
C6_AllProbesThenJoin ==
    \A r \in Reqs :
        /\ Probing(r) =>
              LET E == REGION_ENDPOINTS[req[r].region]
              IN  /\ req[r].probes = Len(E)
                  /\ Len(req[r].tasks) = Len(E)
                  /\ Len(req[r].results) = Len(E)
                  /\ \A n \in 1..Len(E) :
                        Cardinality({ i \in 1..Len(req[r].tasks) :
                                         req[r].tasks[i] = E[n] }) = 1
        /\ Joined(r) =>
              /\ req[r].results # << >>
              /\ \A i \in 1..Len(req[r].results) :
                    req[r].results[i].kind = "return"

\* a request of two probes is past its join with one probe failed and one
\* succeeded; and a request waits at the join with one probe already failed
C6_Witness ==
    \E r1, r2 \in Reqs :
        /\ Joined(r1) /\ Len(req[r1].results) = 2
        /\ ~req[r1].results[1].is_healthy /\ req[r1].results[2].is_healthy
        /\ req[r2].pc = "join" /\ Len(req[r2].results) = 2
        /\ req[r2].results[1].kind = "return" /\ ~req[r2].results[1].is_healthy
        /\ req[r2].results[2].kind = "pending"

\* C7: the endpoint a /fetch request forwards to belongs to the requested
\* region and its own probe in this request returned is_healthy = true,
\* whatever the other request found.
C7_ForwardsToOwnHealthy ==
    \A r \in Reqs :
        req[r].selected # "" =>
            /\ req[r].selected \in Range(REGION_ENDPOINTS[req[r].region])
            /\ \E i \in 1..Len(req[r].tasks) :
                  /\ req[r].tasks[i] = req[r].selected
                  /\ req[r].results[i].kind = "return"
                  /\ req[r].results[i].is_healthy

\* a request forwards to an endpoint that the probe of the other request,
\* to the same region, found unhealthy
C7_Witness ==
    \E r1, r2 \in Reqs :
        /\ r1 # r2
        /\ req[r1].pc = "forward"
        /\ req[r2].region = req[r1].region
        /\ \E i \in 1..Len(req[r2].tasks) :
              /\ req[r2].tasks[i] = req[r1].selected
              /\ req[r2].results[i].kind = "return"
              /\ ~req[r2].results[i].is_healthy

\* every probe of request r has returned and none is healthy
AllUnhealthy(r) ==
    /\ req[r].results # << >>
    /\ \A i \in 1..Len(req[r].results) :
          req[r].results[i].kind = "return" /\ ~req[r].results[i].is_healthy

\* C8: when every probe of the region returned is_healthy = false, POST
\* /fetch answers 503 and makes no forward call.
C8_NoHealthyGives503 ==
    \A r \in Reqs :
        (req[r].kind = "fetch" /\ AllUnhealthy(r)) =>
            /\ req[r].forwards = 0
            /\ req[r].selected = ""
            /\ req[r].pc \in {"join", "done"}
            /\ req[r].pc = "done" => req[r].resp.status = 503

\* a /fetch to a region of two endpoints ended with 503
C8_Witness ==
    \E r \in Reqs :
        /\ req[r].kind = "fetch" /\ req[r].pc = "done"
        /\ Len(req[r].results) = 2 /\ AllUnhealthy(r)
        /\ req[r].resp.status = 503

\* C9: the RegionStatus of /status has total_endpoints = the number of
\* endpoints of the region, healthy_endpoints = the number of healthy
\* verdicts of this request, healthy + unhealthy = total, is_healthy exactly
\* when healthy_endpoints > 0; the response holds exactly one RegionStatus.
C9_RegionStatusCounts ==
    \A r \in Reqs :
        (req[r].kind = "status" /\ req[r].pc = "done" /\ req[r].resp.status = 200) =>
            LET healthy == { i \in 1..Len(req[r].results) :
                               req[r].results[i].kind = "return"
                               /\ req[r].results[i].is_healthy }
                unhealthy == { i \in 1..Len(req[r].results) :
                                 req[r].results[i].kind = "return"
                                 /\ ~req[r].results[i].is_healthy }
            IN  /\ Len(req[r].resp.statuses) = 1
                /\ LET st == req[r].resp.statuses[1]
                   IN  /\ st.region = req[r].region
                       /\ st.total_endpoints = Len(REGION_ENDPOINTS[req[r].region])
                       /\ st.healthy_endpoints = Cardinality(healthy)
                       /\ st.healthy_endpoints + Cardinality(unhealthy)
                              = st.total_endpoints
                       /\ st.is_healthy <=> st.healthy_endpoints > 0

\* a /status of a region of two endpoints reports one healthy of two
C9_Witness ==
    \E r \in Reqs :
        /\ req[r].kind = "status" /\ req[r].pc = "done"
        /\ req[r].resp.status = 200
        /\ req[r].resp.statuses[1].healthy_endpoints = 1
        /\ req[r].resp.statuses[1].total_endpoints = 2

\* C10: check_proxy_health returns a verdict on every network outcome and
\* never raises to the gather; the verdict is healthy exactly on a success
\* status and unhealthy on timeout, connection error and non-success status.
C10_ProbeIsTotal ==
    \A r \in Reqs :
        \A i \in 1..Len(req[r].results) :
            LET v == req[r].results[i]
            IN  /\ v.kind # "raise"
                /\ v.kind = "return" =>
                      /\ v.net \in NetOutcomes
                      /\ v.is_healthy <=> v.net = "success"
                      /\ v.region = req[r].region

\* the probes of the two requests ended in all four ways
C10_Witness ==
    \E r1, r2 \in Reqs :
        /\ Len(req[r1].results) = 2 /\ Len(req[r2].results) = 2
        /\ req[r1].results[1].net = "timeout"
        /\ req[r1].results[2].net = "connect_error"
        /\ req[r2].results[1].net = "http_error"
        /\ req[r2].results[2].net = "success"


\* the /fetch requests whose forward call has ended
Forwarded(r) == req[r].kind = "fetch" /\ req[r].upstream.net # ""

\* C11: a /fetch request makes at most one forward call: after a failed
\* forward call it calls no endpoint again, and a request that returns a
\* success result has made exactly one.
C11_OneForwardCall ==
    \A r \in Reqs :
        /\ req[r].forwards <= 1
        /\ req[r].kind = "status" => req[r].forwards = 0
        /\ Forwarded(r) => req[r].forwards = 1 /\ req[r].pc = "done"
        /\ (req[r].kind = "fetch" /\ req[r].pc = "done" /\ req[r].resp.status = 200)
              => req[r].forwards = 1

\* a /fetch request whose one forward call timed out has ended, with a
\* second endpoint of the region healthy and never called
C11_Witness ==
    \E r \in Reqs :
        /\ Forwarded(r) /\ req[r].upstream.net = "timeout"
        /\ req[r].pc = "done" /\ req[r].forwards = 1
        /\ Len(req[r].results) = 2
        /\ req[r].results[1].is_healthy /\ req[r].results[2].is_healthy

\* C12: when the forward call times out, returns a non-success status or a
\* body that lacks one of result, public_ip, device_id, the request answers
\* 500 and no success; a success answer carries all three fields of the
\* upstream body and region_used = the requested region.
C12_ForwardFailureGives500 ==
    \A r \in Reqs :
        /\ (/\ Forwarded(r)
            /\ \/ req[r].upstream.net \in {"timeout", "http_error"}
               \/ req[r].upstream.lacking)
              => req[r].pc = "done" /\ req[r].resp.status = 500
        /\ (req[r].kind = "fetch" /\ req[r].resp.status = 200) =>
              /\ Forwarded(r)
              /\ req[r].upstream.net = "success"
              /\ ~req[r].upstream.lacking
              /\ req[r].resp.fields = ProxyFields
              /\ req[r].resp.region_used = req[r].region

\* one /fetch ended with 500 on a body that lacked a field while the other
\* ended with success
C12_Witness ==
    \E r1, r2 \in Reqs :
        /\ Forwarded(r1) /\ req[r1].upstream.net = "success"
        /\ req[r1].upstream.lacking
        /\ req[r1].resp.status = 500
        /\ Forwarded(r2) /\ req[r2].resp.status = 200


(***************************************************************************)
(* GET /api-keys after POST /generate-api-key                              *)
(***************************************************************************)
Ellipsis == << Lit("."), Lit("."), Lit(".") >>

\* the first 8 characters of k, the marker, and the last 8 characters of k
PreviewOf(k) ==
    LET str == TokenString(k)
    IN  [j \in 1..8 |-> str[j]] \o Ellipsis
            \o [j \in 1..8 |-> str[Len(str) - 8 + j]]

\* C13: a GET /api-keys that follows, after any other requests, a POST
\* /generate-api-key which returned api_key k to the same subscribed user
\* contains an entry with is_active = true whose key_preview is the first 8
\* characters of k, the marker "..." and the last 8 characters of k
C13_ListShowsIssuedKey ==
    [][ lst' # lst =>
          \A x \in returned :
             x.user = lst'.user =>
                /\ lst'.status = 200
                /\ \E i \in 1..Len(lst'.keys) :
                      /\ lst'.keys[i].is_active = TRUE
                      /\ lst'.keys[i].key_preview = PreviewOf(x.api_key) ]_vars

\* two keys were returned to alice, at different times with other requests
\* in between, and her list shows the previews of both
C13_Witness ==
    /\ lst.status = 200
    /\ Cardinality(returned) = 2
    /\ vres # NoVerify
    /\ \A x \in returned :
          /\ x.user = lst.user
          /\ \E i \in 1..Len(lst.keys) :
                lst.keys[i].key_preview = PreviewOf(x.api_key)

GateOutcomeOf(k, t) ==
    IF k.isNone \/ k.segs = 0 THEN "rejected"
    ELSE IF VerifiesToTheSecond(k, t) /\ UserActive(k) /\ Subscribed(k)
    THEN "Authorized"
    ELSE "rejected"

\* the record of key k in the table, if any
RecordsOf(k) == { i \in 1..Len(apitokens) : apitokens[i].token = k }

\* C15: the decision of the gate does not depend on the persisted is_active
\* flag of the presented token nor on whether the token has a record: in
\* every state of the token table the same request gets the outcome that the
\* header, the clock and the user table determine, so a token whose record
\* has is_active = false is Authorized when the other conditions hold
C15_GateIgnoresIsActive ==
    [][\A r \in Reqs :
          GateStep(r) =>
             req'[r].gate = GateOutcomeOf(req[r].x_api_key, now)]_vars

\* a request was Authorized on a key whose record has is_active = false
C15_Witness ==
    \E r \in Reqs :
        /\ req[r].gate = "Authorized"
        /\ \E i \in RecordsOf(req[r].x_api_key) : ~apitokens[i].is_active

(***************************************************************************)
(* POST /generate-api-key without a subscription                           *)
(***************************************************************************)
\* the /generate-api-key request in flight is of a user without subscription
Unsubscribed(g) == g.user # NoUser /\ ~users[g.user].has_subscription

\* C16: POST /generate-api-key by an authenticated user with
\* has_subscription = false is answered 403, returns no api_key, and leaves
\* the persisted token records as they were
C16_NoSubscriptionNoKey ==
    [][(Unsubscribed(gen) \/ Unsubscribed(gen')) =>
          /\ apitokens' = apitokens
          /\ returned' = returned
          /\ Unsubscribed(gen') =>
                /\ gen'.pc = "done"
                /\ gen'.status = 403
                /\ gen'.api_key = NoHeader]_vars

\* bob, who has no subscription, was answered 403 while a record of alice
\* is persisted
C16_Witness ==
    /\ gen.pc = "done" /\ gen.user = "bob" /\ gen.status = 403
    /\ Len(apitokens) = 1

(***************************************************************************)
(* What the requests change                                                *)
(***************************************************************************)
\* the step in which a POST /generate-api-key succeeds
GenSucceeds == gen.status # 200 /\ gen'.status = 200

\* C17: over every interleaving of requests the user records never change,
\* and the token records change only in the step in which a POST
\* /generate-api-key succeeds, which appends exactly one record, with
\* is_active = true and of the authenticated user, and leaves the existing
\* records as they were; the gate, GET /status, POST /fetch, GET /api-keys
\* and every rejected request change no record
C17_OnlyIssuanceWrites ==
    [][/\ users' = users
       /\ GenSucceeds =>
             /\ Len(apitokens') = Len(apitokens) + 1
             /\ SubSeq(apitokens', 1, Len(apitokens)) = apitokens
             /\ apitokens'[Len(apitokens')].is_active = TRUE
             /\ apitokens'[Len(apitokens')].user_id = gen'.user
       /\ ~GenSucceeds => apitokens' = apitokens]_vars

\* one record was written, a /fetch request was answered 200, alice's list
\* was served, and bob's /generate-api-key request was rejected
C17_Witness ==
    /\ Len(apitokens) = 1
    /\ gen.user = "bob" /\ gen.status = 403
    /\ lst.status = 200 /\ Len(lst.keys) = 1
    /\ \E r \in OneReq :
          /\ req[r].kind = "fetch" /\ req[r].pc = "done"
          /\ req[r].resp.status = 200

(***************************************************************************)
(* Unknown regions                                                         *)
(***************************************************************************)
\* request r was authorized, names a region that is not registered, and its
\* handler has run
UnknownRegionHandled(r) ==
    /\ req[r].gate = "Authorized"
    /\ req[r].region \notin DOMAIN REGION_ENDPOINTS
    /\ req[r].pc \notin {"idle", "gate", "handler"}

\* C18: an authorized request naming a region that is not in the registry
\* is answered 400, by GET /status and by POST /fetch alike, and dispatches
\* no probe and no forward call
C18_UnknownRegionGives400 ==
    \A r \in Reqs :
        /\ UnknownRegionHandled(r) =>
              /\ req[r].pc = "done"
              /\ req[r].resp.status = 400
        /\ (req[r].gate = "Authorized"
              /\ req[r].region \notin DOMAIN REGION_ENDPOINTS) =>
              /\ req[r].probes = 0
              /\ req[r].forwards = 0

\* a /status and a /fetch request of an entitled user, both for a region
\* that is not registered, were both answered 400
C18_Witness ==
    \E r1, r2 \in Reqs :
        /\ UnknownRegionHandled(r1) /\ req[r1].kind = "status"
        /\ UnknownRegionHandled(r2) /\ req[r2].kind = "fetch"
        /\ req[r1].resp.status = 400 /\ req[r2].resp.status = 400

(***************************************************************************)
(* The expiry of an issued token                                           *)
(***************************************************************************)
\* C19: the record of every token issued through POST /generate-api-key has
\* expires_at = created_at + 365 days exactly, and its expires_at is the
\* expiry embedded in the signed token, also when the clock advances between
\* the clock reads of one issuance
C19_ExpiryExact ==
    \A i \in 1..Len(apitokens) :
        /\ apitokens[i].expires_at = apitokens[i].created_at + Days365
        /\ apitokens[i].expires_at = apitokens[i].token.payload.exp

(***************************************************************************)
(* Termination                                                             *)
(***************************************************************************)
Outcomes == {200, 400, 401, 403, 503, 500}

\* request r has its response
Answered(r) == req[r].pc = "done" /\ req[r].resp.status \in Outcomes

\* C20: when every probe and every forward call eventually returns or times
\* out, every /status and /fetch request ends with exactly one response,
\* which is a success, 400, 401, 403, 503 or 500: no request stays at the
\* join of its probes forever, and a request that has its response keeps it
C20_EveryRequestAnswered ==
    /\ \A r \in Reqs : (req[r].pc \in {"gate"} \cup Body) ~> Answered(r)
    /\ [][\A r \in Reqs :
             (req[r].pc = "done" /\ req'[r].pc = "done") =>
                 req'[r].resp = req[r].resp]_vars

\* a /fetch request that waited at the join for all its probes has its
\* response while the other request still waits at its join
C20_Witness ==
    \E r1, r2 \in Reqs :
        /\ Answered(r1) /\ req[r1].kind = "fetch"
        /\ req[r1].probes = MaxEndpoints
        /\ req[r2].pc = "join"

====
